---- MODULE Spec2Model ----
(***************************************************************************)
(* Model of docs/veeambackup_wtoken3.py: the token store (save_tokens,     *)
(* load_tokens), the token manager (get_access_token), the API client      *)
(* (make_authenticated_request), the report builder (get_failed_jobs,      *)
(* generate_report_text), the notifier (send_daily_report) and the         *)
(* __main__ run.                                                           *)
(***************************************************************************)
EXTENDS Integers, Sequences, FiniteSets, TLC

(***************************************************************************)
(* Bounds of the model and program constants.                              *)
(***************************************************************************)
\* data.get("expires_in", 3600): the default lifetime in seconds.
DefaultExpiresIn == 3600

\* The model's clock advances in steps of half the default lifetime.
Quantum == DefaultExpiresIn \div 2

\* The model's clock stops at this many quanta.
MaxQuanta == 3

(***************************************************************************)
(* Python values.  Every value is a record of the same shape, so that      *)
(* values of different Python types can be compared.                       *)
(***************************************************************************)
PyNone == [ty |-> "NoneType", s |-> "", n |-> 0]

PyStr(x) == [ty |-> "str", s |-> x, n |-> 0]

PyInt(k) == [ty |-> "int", s |-> "", n |-> k]

PyFloat(k) == [ty |-> "float", s |-> "", n |-> k]

\* bool(v): None, 0, 0.0 and "" are false.
Truthy(v) ==
    CASE v.ty = "NoneType" -> FALSE
      [] v.ty = "str" -> v.s # ""
      [] OTHER -> v.n # 0

IsNumber(v) == v.ty \in {"int", "float"}

(***************************************************************************)
(* JSON text of one value, as json.dump writes it and json.load reads it:  *)
(* null, a string, or a number written with or without a fraction part.    *)
(***************************************************************************)
JsonNull == [jt |-> "null", s |-> "", n |-> 0, frac |-> FALSE]

json_dump(v) ==
    CASE v.ty = "NoneType" -> JsonNull
      [] v.ty = "str" -> [jt |-> "string", s |-> v.s, n |-> 0, frac |-> FALSE]
      [] v.ty = "int" -> [jt |-> "number", s |-> "", n |-> v.n, frac |-> FALSE]
      [] OTHER -> [jt |-> "number", s |-> "", n |-> v.n, frac |-> TRUE]

json_load(j) ==
    CASE j.jt = "null" -> PyNone
      [] j.jt = "string" -> PyStr(j.s)
      [] j.frac -> PyFloat(j.n)
      [] OTHER -> PyInt(j.n)

\* float(x) for a number x.
float(v) == PyFloat(v.n)

(***************************************************************************)
(* Token store.  A credential is the triple of module globals; the token   *)
(* file is NoFile or the JSON object save_tokens wrote.                    *)
(***************************************************************************)
NoCredential ==
    [access_token |-> PyNone, refresh_token |-> PyNone, token_expiry |-> PyNone]

NoFile ==
    [exists |-> FALSE, access_token |-> JsonNull, refresh_token |-> JsonNull,
     token_expiry |-> JsonNull]

\* Mutant of save_tokens: the refresh token is not written.
save_tokens_without_refresh(c) ==
    [exists |-> TRUE,
     access_token |-> json_dump(c.access_token),
     refresh_token |-> JsonNull,
     token_expiry |-> json_dump(c.token_expiry)]

save_tokens(c) ==
    [exists |-> TRUE,
     access_token |-> json_dump(c.access_token),
     refresh_token |-> json_dump(c.refresh_token),
     token_expiry |-> json_dump(c.token_expiry)]

\* Mutant of load_tokens: the expiry is not read back.
load_tokens_without_expiry(c, f) ==
    IF ~f.exists THEN c
    ELSE [access_token |-> json_load(f.access_token),
          refresh_token |-> json_load(f.refresh_token),
          token_expiry |-> c.token_expiry]

load_tokens(c, f) ==
    IF ~f.exists THEN c
    ELSE LET e == json_load(f.token_expiry)
         IN [access_token |-> json_load(f.access_token),
             refresh_token |-> json_load(f.refresh_token),
             token_expiry |-> IF Truthy(e) THEN float(e) ELSE e]

(***************************************************************************)
(* HTTP responses.  requests.post / requests.get either raise (transport   *)
(* error: raised = TRUE) or return a response with a status code; a 200    *)
(* answer of the authentication endpoint carries a JSON object whose keys  *)
(* may be absent (PyNone stands for an absent key).                        *)
(***************************************************************************)
AuthResponse(raised, status, at, rt, ei) ==
    [raised |-> raised, status |-> status, access_token |-> at,
     refresh_token |-> rt, expires_in |-> ei]

GetResponse(raised, status, body) ==
    [raised |-> raised, status |-> status, body |-> body]

\* One HTTP request made by the token manager or the API client.
HttpEvent(op, bearer) == [op |-> op, bearer |-> bearer]

\* data.get("expires_in", 3600)
ExpiresIn(resp) ==
    IF resp.expires_in = PyNone THEN DefaultExpiresIn ELSE resp.expires_in.n

(***************************************************************************)
(* Token manager: get_access_token.  c, f: the globals and the token file  *)
(* before the call; resp: what the POST does; t: time.time() at line 76.   *)
(***************************************************************************)
\* Mutant of get_access_token: a refused exchange clears the cached
\* credential and saves it.
get_access_token_clearing(c, f, resp, t) ==
    LET post == <<HttpEvent("POST", PyNone)>>
    IN  IF resp.raised
        THEN [cred |-> c, file |-> f, ret |-> PyNone, raised |-> TRUE,
              events |-> post, log |-> <<>>]
        ELSE IF resp.status = 200
        THEN LET c2 == [access_token |-> resp.access_token,
                        refresh_token |-> resp.refresh_token,
                        token_expiry |-> PyFloat(t + ExpiresIn(resp))]
             IN [cred |-> c2, file |-> save_tokens(c2),
                 ret |-> c2.access_token, raised |-> FALSE, events |-> post,
                 log |-> IF Truthy(c2.token_expiry)
                         THEN <<"INFO:Token expires at">> ELSE <<>>]
        ELSE [cred |-> NoCredential, file |-> save_tokens(NoCredential),
              ret |-> PyNone, raised |-> FALSE, events |-> post,
              log |-> <<"ERROR:Failed to obtain access token">>]

get_access_token(c, f, resp, t) ==
    LET post == <<HttpEvent("POST", PyNone)>>
    IN  IF resp.raised
        THEN [cred |-> c, file |-> f, ret |-> PyNone, raised |-> TRUE,
              events |-> post, log |-> <<>>]
        ELSE IF resp.status = 200
        THEN LET c2 == [access_token |-> resp.access_token,
                        refresh_token |-> resp.refresh_token,
                        token_expiry |-> PyFloat(t + ExpiresIn(resp))]
             IN [cred |-> c2, file |-> save_tokens(c2),
                 ret |-> c2.access_token, raised |-> FALSE, events |-> post,
                 log |-> IF Truthy(c2.token_expiry)
                         THEN <<"INFO:Token expires at">> ELSE <<>>]
        ELSE [cred |-> c, file |-> f, ret |-> PyNone, raised |-> FALSE,
              events |-> post,
              log |-> <<"ERROR:Failed to obtain access token">>]

(***************************************************************************)
(* API client: make_authenticated_request.  now: time.time() at line 90;   *)
(* aResp, tAcq: the POST's outcome and the time of line 76, used only if   *)
(* the exchange is made; gResp: the GET's outcome, used only if a GET is   *)
(* issued.  ret is "None", or the decoded body of a 200 answer ("data": a  *)
(* non-empty object, "empty": the empty object {}); token is what the      *)
(* nested get_access_token returned (PyNone when it was not called).       *)
(***************************************************************************)
\* Mutant of NeedsToken: the token counts as expired at its expiry time.
NeedsToken_at_expiry(c, now) ==
    \/ c.access_token = PyNone
    \/ (IsNumber(c.token_expiry) /\ now >= c.token_expiry.n)

\* access_token is None or time.time() > token_expiry
NeedsToken(c, now) ==
    \/ c.access_token = PyNone
    \/ (IsNumber(c.token_expiry) /\ now > c.token_expiry.n)

\* time.time() > None raises TypeError
ExpiryTypeError(c) ==
    c.access_token # PyNone /\ ~IsNumber(c.token_expiry)

make_authenticated_request(c, f, now, aResp, tAcq, gResp) ==
    LET quiet == [cred |-> c, file |-> f, ret |-> PyNone, raised |-> FALSE,
                  events |-> <<>>, log |-> <<>>]
        g == IF NeedsToken(c, now)
             THEN get_access_token(c, f, aResp, tAcq) ELSE quiet
        get == <<HttpEvent("GET", g.cred.access_token)>>
        base == [cred |-> g.cred, file |-> g.file, raised |-> FALSE,
                 token |-> g.ret]
    IN  IF ExpiryTypeError(c)
        THEN [cred |-> c, file |-> f, raised |-> TRUE, token |-> PyNone,
              ret |-> "None", events |-> <<>>, log |-> <<>>]
        ELSE IF g.raised
        THEN [base EXCEPT !.raised = TRUE] @@
             [ret |-> "None", events |-> g.events, log |-> g.log]
        ELSE IF Truthy(g.cred.access_token)
        THEN IF gResp.raised
             THEN [base EXCEPT !.raised = TRUE] @@
                  [ret |-> "None", events |-> g.events \o get, log |-> g.log]
             ELSE IF gResp.status = 200
             THEN base @@ [ret |-> gResp.body, events |-> g.events \o get,
                           log |-> g.log]
             ELSE base @@
                  [ret |-> "None", events |-> g.events \o get,
                   log |-> g.log \o
                       <<"ERROR:Failed to make authenticated request">>]
        ELSE base @@
             [ret |-> "None", events |-> g.events,
              log |-> g.log \o <<"ERROR:Unable to obtain a valid access token">>]

(***************************************************************************)
(* Notifier.  Each relay POST returns a status or raises (transport        *)
(* error); send_media_group first reads the image file.                    *)
(***************************************************************************)
RelayResponse(raised, status) == [raised |-> raised, status |-> status]

RelayEvent(kind, message, image) ==
    [kind |-> kind, message |-> message, image |-> image]

send_group_message(message, r) ==
    [events |-> <<RelayEvent("text", message, "")>>,
     raised |-> r.raised,
     log |-> IF r.raised THEN <<>>
             ELSE IF r.status = 200
             THEN <<"INFO:Group message sent successfully!">>
             ELSE <<"ERROR:Error sending group message">>]

send_media_group(message, file_path, r, disk) ==
    IF file_path \notin disk
    THEN [events |-> <<>>, raised |-> TRUE, log |-> <<>>]
    ELSE [events |-> <<RelayEvent("media", message, file_path)>>,
          raised |-> r.raised,
          log |-> IF r.raised THEN <<>>
                  ELSE IF r.status = 200
                  THEN <<"INFO:Media message sent successfully!">>
                  ELSE <<"ERROR:Error sending media message">>]

\* Two calls in sequence: the second runs only if the first did not raise.
Then(a, b) ==
    IF a.raised THEN a
    ELSE [events |-> a.events \o b.events, raised |-> b.raised,
          log |-> a.log \o b.log]

\* text1, text2 = generate_report_text(...): the job summary and the
\* repository summary (their content is modelled by RepoEntry, get_failed_jobs).
send_daily_report(r1, r2, r3, disk) ==
    Then(Then(send_group_message("header", r1),
              send_media_group("text1", "job_states_pie_chart.png", r2, disk)),
         send_media_group("text2", "repository_info_bar_chart.png", r3, disk))

(***************************************************************************)
(* Report builder: get_failed_jobs.  Time is counted in hours.  A lastRun  *)
(* field is absent, text that is no ISO timestamp, a timestamp without     *)
(* UTC offset (wall: the wall-clock time) or one with offset off.          *)
(***************************************************************************)
\* timedelta(days=1), in hours.
HoursPerDay == 24

LastRun(form, wall, off) == [form |-> form, wall |-> wall, off |-> off]

Job(lastResult, lastRun) == [lastResult |-> lastResult, lastRun |-> lastRun]

\* datetime.fromisoformat(job.get('lastRun')): raises for None and for
\* text that is no ISO timestamp; otherwise a naive or an aware datetime,
\* the aware one denoting the instant wall - off.
fromisoformat(lr) ==
    CASE lr.form \in {"absent", "garbage"} ->
            [raised |-> TRUE, aware |-> FALSE, instant |-> 0]
      [] lr.form = "naive" ->
            [raised |-> FALSE, aware |-> FALSE, instant |-> lr.wall]
      [] OTHER ->
            [raised |-> FALSE, aware |-> TRUE, instant |-> lr.wall - lr.off]

\* now - timedelta(days=1) <= last_run <= now + timedelta(days=1), for an
\* aware last_run; now is the instant of datetime.now().astimezone().
InWindow(now, instant) ==
    now - HoursPerDay <= instant /\ instant <= now + HoursPerDay

\* The loop of get_failed_jobs from job i on, failed being the list so far.
\* Comparing the aware now with a naive last_run raises TypeError, outside
\* the try block.
RECURSIVE failed_from(_, _, _, _)
failed_from(jobs, now, i, failed) ==
    IF i > Len(jobs) THEN [raised |-> FALSE, ret |-> failed]
    ELSE LET job == jobs[i]
             last_run == fromisoformat(job.lastRun)
         IN  IF last_run.raised THEN failed_from(jobs, now, i + 1, failed)
             ELSE IF job.lastResult = "Success"
             THEN failed_from(jobs, now, i + 1, failed)
             ELSE IF ~last_run.aware THEN [raised |-> TRUE, ret |-> <<>>]
             ELSE IF InWindow(now, last_run.instant)
             THEN failed_from(jobs, now, i + 1, Append(failed, job))
             ELSE failed_from(jobs, now, i + 1, failed)

get_failed_jobs(jobs, now) == failed_from(jobs, now, 1, <<>>)

(***************************************************************************)
(* Report builder: the derived usedSpaceGB of __main__ and the repository  *)
(* summary of generate_report_text.  A field of a repository is Absent     *)
(* (no such key), PyNone (null) or a number.                               *)
(***************************************************************************)
Absent == [ty |-> "absent", s |-> "", n |-> 0]

Repo(cap, free, used) ==
    [capacityGB |-> cap, freeGB |-> free, usedSpaceGB |-> used]

\* dict.get(key, default)
Get(v, default) == IF v = Absent THEN default ELSE v

\* lines 239-243: r['usedSpaceGB'] = capacityGB - freeGB, or the existing
\* value when the subtraction raises.
derive_used_space(r) ==
    LET cap == Get(r.capacityGB, PyInt(0))
        free == Get(r.freeGB, PyInt(0))
    IN  [r EXCEPT !.usedSpaceGB =
            IF IsNumber(cap) /\ IsNumber(free) THEN PyInt(cap.n - free.n)
            ELSE Get(r.usedSpaceGB, PyInt(0))]

\* Figures of the summary: exact fractions num/den, or the exception the
\* arithmetic raises.
Figure(num, den) == [err |-> "", num |-> num, den |-> den]

Zero == Figure(0, 1)

Raise(e) == [err |-> e, num |-> 0, den |-> 1]

\* a / b
TrueDiv(a, b) ==
    IF ~IsNumber(a) \/ ~IsNumber(b) THEN Raise("TypeError")
    ELSE IF b.n = 0 THEN Raise("ZeroDivisionError")
    ELSE Figure(a.n, b.n)

\* x * k for a figure x
Times(x, k) == IF x.err # "" THEN x ELSE Figure(x.num * k, x.den)

\* Mutant of repo_entry: the percentage is guarded by the used space.
repo_entry_guarding_used(repo) ==
    LET cap == Get(repo.capacityGB, PyInt(0))
        used == Get(repo.usedSpaceGB, PyInt(0))
    IN  [total_tb |-> IF Truthy(cap) THEN TrueDiv(cap, PyInt(1024)) ELSE Zero,
         used_tb |-> IF Truthy(cap) THEN TrueDiv(used, PyInt(1024)) ELSE Zero,
         pct |-> IF Truthy(used) THEN Times(TrueDiv(used, cap), 100) ELSE Zero]

\* lines 182-186
repo_entry(repo) ==
    LET cap == Get(repo.capacityGB, PyInt(0))
        used == Get(repo.usedSpaceGB, PyInt(0))
    IN  [total_tb |-> IF Truthy(cap) THEN TrueDiv(cap, PyInt(1024)) ELSE Zero,
         used_tb |-> IF Truthy(cap) THEN TrueDiv(used, PyInt(1024)) ELSE Zero,
         pct |-> IF Truthy(cap) THEN Times(TrueDiv(used, cap), 100) ELSE Zero]

EntryError(e) ==
    IF e.total_tb.err # "" THEN e.total_tb.err
    ELSE IF e.used_tb.err # "" THEN e.used_tb.err
    ELSE e.pct.err

\* The loop of lines 181-192 from repository i on: the entries, or the
\* exception and the index of the repository that raised it.
RECURSIVE entries_from(_, _, _)
entries_from(repos, i, entries) ==
    IF i > Len(repos) THEN [err |-> "", at |-> 0, entries |-> entries]
    ELSE LET e == repo_entry(repos[i])
         IN  IF EntryError(e) # ""
             THEN [err |-> EntryError(e), at |-> i, entries |-> <<>>]
             ELSE entries_from(repos, i + 1, Append(entries, e))

generate_report_text(repos) == entries_from(repos, 1, <<>>)

(***************************************************************************)
(* The run (__main__) as a state machine.                                  *)
(***************************************************************************)
VARIABLES
    cred,          \* access_token, refresh_token, token_expiry (globals)
    file,          \* tokens.json
    clock,         \* time.time()
    pc,            \* position of __main__
    job_states,    \* result of the first fetch
    repos_states,  \* result of the second fetch
    call,          \* the last call of make_authenticated_request
    log,           \* entries the last step appended to token_logs.log
    disk,          \* chart image files on disk
    rendered,      \* charts rendered by this run, in order
    relay,         \* POSTs this run made to the messaging relay, in order
    saved,         \* history: the triple last written by save_tokens
    rb_pc,         \* report builder: position
    jobs,          \* report builder: job_states['data']
    now,           \* report builder: datetime.now().astimezone()
    failed,        \* report builder: result of get_failed_jobs
    repos,         \* report builder: repos_states['data']
    summary        \* report builder: result of generate_report_text

runVars == <<cred, file, clock, pc, job_states, repos_states, call, log,
             disk, rendered, relay, saved>>

rbVars == <<rb_pc, jobs, now, failed, repos, summary>>

vars == <<runVars, rbVars>>

StatusCodes == {200, 401}

\* Bodies of a 200 answer of the authentication endpoint: access token and
\* refresh token (PyNone: the key is absent).
TokenPairs ==
    {<<PyStr("tokA"), PyStr("refA")>>, <<PyStr("tokB"), PyStr("refB")>>,
     <<PyNone, PyNone>>}

Delays == {0, Quantum, 2 * Quantum}

MaxClock == MaxQuanta * Quantum

AuthResponses ==
    {AuthResponse(TRUE, 0, PyNone, PyNone, PyNone)}
    \cup {AuthResponse(FALSE, st, PyNone, PyNone, PyNone) :
            st \in StatusCodes \ {200}}
    \cup {AuthResponse(FALSE, 200, p[1], p[2], ei) :
            p \in TokenPairs, ei \in {PyNone, PyInt(Quantum)}}

GetResponses ==
    {GetResponse(TRUE, 0, "None")}
    \cup {GetResponse(FALSE, st, "None") : st \in StatusCodes \ {200}}
    \cup {GetResponse(FALSE, 200, b) : b \in {"data", "empty"}}

RelayResponses ==
    {RelayResponse(TRUE, 0)}
    \cup {RelayResponse(FALSE, st) : st \in StatusCodes}

NoCall ==
    [api |-> "", now |-> 0, credBefore |-> NoCredential, fileBefore |-> NoFile,
     auth |-> AuthResponse(FALSE, 0, PyNone, PyNone, PyNone), acquiredAt |-> 0,
     got |-> GetResponse(FALSE, 0, "None"),
     ret |-> "None", raised |-> FALSE, token |-> PyNone, events |-> <<>>,
     acquiredBefore |-> FALSE]

RunInit ==
    /\ cred = NoCredential
    /\ file = NoFile
    /\ clock = 0
    /\ pc = "load_tokens"
    /\ job_states = "None"
    /\ repos_states = "None"
    /\ call = NoCall
    /\ log = <<>>
    /\ disk = {}
    /\ rendered = <<>>
    /\ relay = <<>>
    /\ saved = NoCredential

RbIdle ==
    /\ rb_pc = "idle"
    /\ jobs = <<>>
    /\ now = 0
    /\ failed = [raised |-> FALSE, ret |-> <<>>]
    /\ repos = <<>>
    /\ summary = [err |-> "", at |-> 0, entries |-> <<>>]

Init == RunInit /\ RbIdle

\* line 235
LoadTokens ==
    /\ pc = "load_tokens"
    /\ cred' = load_tokens(cred, file)
    /\ pc' = "jobs"
    /\ log' = <<>>
    /\ UNCHANGED <<file, clock, job_states, repos_states, call, disk,
                   rendered, relay, saved>>
    /\ UNCHANGED rbVars

\* History: the call made a successful exchange that yielded a token.
Acquired(k) ==
    /\ \E i \in 1..Len(k.events) : k.events[i].op = "POST"
    /\ ~k.auth.raised /\ k.auth.status = 200 /\ k.auth.access_token # PyNone

\* One call of make_authenticated_request from __main__; the POST and the
\* GET each take d1, d2 seconds.
Fetch(api, aResp, d1, gResp, d2) ==
    LET r == make_authenticated_request(cred, file, clock, aResp, clock + d1,
                                        gResp)
        posted == \E i \in 1..Len(r.events) : r.events[i].op = "POST"
        issued == \E i \in 1..Len(r.events) : r.events[i].op = "GET"
    IN  /\ clock + d1 + d2 <= MaxClock
        /\ cred' = r.cred
        /\ file' = r.file
        /\ clock' = clock + (IF posted THEN d1 ELSE 0)
                          + (IF issued THEN d2 ELSE 0)
        /\ call' = [api |-> api, now |-> clock, credBefore |-> cred,
                    fileBefore |-> file,
                    auth |-> IF posted THEN aResp ELSE NoCall.auth,
                    acquiredAt |-> IF posted THEN clock + d1 ELSE 0,
                    got |-> IF issued THEN gResp ELSE NoCall.got,
                    ret |-> r.ret, raised |-> r.raised, token |-> r.token,
                    events |-> r.events,
                    acquiredBefore |-> Acquired(call)]
        /\ saved' = IF posted /\ ~aResp.raised /\ aResp.status = 200
                    THEN r.cred ELSE saved
        /\ log' = r.log
        /\ pc' = IF r.raised THEN "crashed"
                 ELSE IF api = "jobs/states" THEN "repos" ELSE "branch"
        /\ IF r.raised
           THEN UNCHANGED <<job_states, repos_states>>
           ELSE IF api = "jobs/states"
           THEN job_states' = r.ret /\ UNCHANGED repos_states
           ELSE repos_states' = r.ret /\ UNCHANGED job_states
        /\ UNCHANGED <<disk, rendered, relay>>
        /\ UNCHANGED rbVars

\* line 236
FetchJobStates ==
    /\ pc = "jobs"
    /\ \E aResp \in AuthResponses, gResp \in GetResponses, d1, d2 \in Delays :
          Fetch("jobs/states", aResp, d1, gResp, d2)

\* line 237
FetchRepositoryStates ==
    /\ pc = "repos"
    /\ \E aResp \in AuthResponses, gResp \in GetResponses, d1, d2 \in Delays :
          Fetch("backupInfrastructure/repositories/states", aResp, d1, gResp,
                d2)

\* bool(x) of a fetch result: None and {} are false.
Fetched(x) == x = "data"

\* lines 244-246: both charts are rendered.
PlotCharts ==
    /\ pc = "branch"
    /\ Fetched(job_states) /\ Fetched(repos_states)
    /\ rendered' = rendered \o <<"job_states_pie_chart.png",
                                 "repository_info_bar_chart.png">>
    /\ disk' = disk \cup {"job_states_pie_chart.png",
                          "repository_info_bar_chart.png"}
    /\ pc' = "send"
    /\ log' = <<>>
    /\ UNCHANGED <<cred, file, clock, job_states, repos_states, call, relay,
                   saved>>
    /\ UNCHANGED rbVars

\* line 247
SendDailyReport ==
    /\ pc = "send"
    /\ \E r1, r2, r3 \in RelayResponses :
          LET s == send_daily_report(r1, r2, r3, disk)
          IN  /\ relay' = relay \o s.events
              /\ log' = s.log
              /\ pc' = IF s.raised THEN "crashed" ELSE "done"
    /\ UNCHANGED <<cred, file, clock, job_states, repos_states, call, disk,
                   rendered, saved>>
    /\ UNCHANGED rbVars

\* lines 248-249
LogFetchFailure ==
    /\ pc = "branch"
    /\ ~(Fetched(job_states) /\ Fetched(repos_states))
    /\ log' = <<"ERROR:Failed to fetch data from one or more endpoints">>
    /\ pc' = "done"
    /\ UNCHANGED <<cred, file, clock, job_states, repos_states, call, disk,
                   rendered, relay, saved>>
    /\ UNCHANGED rbVars

\* The process has ended (normally or by an uncaught exception) and is
\* started again by its external schedule: the globals are fresh, the files
\* stay.
Restart ==
    /\ pc \in {"done", "crashed"}
    /\ \E gap \in Delays : clock + gap <= MaxClock /\ clock' = clock + gap
    /\ cred' = NoCredential
    /\ pc' = "load_tokens"
    /\ job_states' = "None"
    /\ repos_states' = "None"
    /\ call' = NoCall
    /\ log' = <<>>
    /\ rendered' = <<>>
    /\ relay' = <<>>
    /\ UNCHANGED <<file, disk, saved>>
    /\ UNCHANGED rbVars

Next ==
    \/ LoadTokens
    \/ FetchJobStates
    \/ FetchRepositoryStates
    \/ PlotCharts
    \/ SendDailyReport
    \/ LogFetchFailure
    \/ Restart

Spec == Init /\ [][Next]_vars

(***************************************************************************)
(* Properties of the run.                                                  *)
(***************************************************************************)
\* The positions of the requests of kind op in the last call.
Requests(op) == {i \in 1..Len(call.events) : call.events[i].op = op}

Called == call.api # ""

Exchanged == Requests("POST") # {}

ExchangeSucceeded ==
    Exchanged /\ ~call.auth.raised /\ call.auth.status = 200

ExchangeRefused ==
    Exchanged /\ ~call.auth.raised /\ call.auth.status # 200

\* The cached expiry was in the past when the call began.
ExpiredAtEntry ==
    /\ Called
    /\ IsNumber(call.credBefore.token_expiry)
    /\ call.now > call.credBefore.token_expiry.n

\* C1: a call of make_authenticated_request made while the cached expiry is
\* in the past attempts the password-grant exchange before any GET; a GET
\* is issued only after a successful exchange and carries the token that
\* exchange returned; after a failed exchange no GET is issued and the
\* fetch returns failure.
C1_ExpiredCredentialNeverUsed ==
    ExpiredAtEntry =>
        /\ Exchanged
        /\ call.events[1].op = "POST"
        /\ \A i \in Requests("GET") :
              /\ ExchangeSucceeded
              /\ call.events[i].bearer = call.auth.access_token
        /\ ~ExchangeSucceeded => (Requests("GET") = {} /\ call.ret = "None")

\* The last call issued a GET that was answered with a non-200 status or
\* ended in a transport error.
GetFailed ==
    /\ Requests("GET") # {}
    /\ call.got.raised \/ call.got.status # 200

\* C2: a GET that ends in a non-200 status or in a transport error makes
\* make_authenticated_request log the failure and return None: no exception
\* leaves the call, the GET is not retried, and the run goes on.
C2_FailedGetReturnsNone ==
    (GetFailed /\ pc \in {"repos", "branch", "crashed"}) =>
        /\ ~call.raised
        /\ call.ret = "None"
        /\ Cardinality(Requests("GET")) = 1
        /\ \E i \in 1..Len(log) :
              log[i] = "ERROR:Failed to make authenticated request"
        /\ pc # "crashed"

\* C3: when the authentication endpoint answers with a non-200 status,
\* get_access_token makes exactly one POST, returns None and leaves the
\* token file exactly as it was (absent if it was absent).
C3_RefusedExchangeWritesNothing ==
    ExchangeRefused =>
        /\ Cardinality(Requests("POST")) = 1
        /\ call.token = PyNone
        /\ file = call.fileBefore

C3_Witness ==
    /\ ExchangeRefused
    /\ call.auth.status = 401
    /\ ~call.fileBefore.exists
    /\ ~file.exists

\* C4: make_authenticated_request performs the password-grant exchange if
\* and only if no access token is cached or the current time is strictly
\* greater than the cached expiry, and at most once per call; a second fetch
\* made no later than the expiry of the token the first fetch acquired
\* reuses that token and makes no exchange.
C4_ExchangeIffMissingOrExpired ==
    Called =>
        /\ Exchanged <=> (call.credBefore.access_token = PyNone
                          \/ call.now > call.credBefore.token_expiry.n)
        /\ Cardinality(Requests("POST")) <= 1
        /\ (call.acquiredBefore /\ call.now <= call.credBefore.token_expiry.n)
              => /\ ~Exchanged
                 /\ \A i \in Requests("GET") :
                       call.events[i].bearer = call.credBefore.access_token

C4_Witness ==
    /\ Called
    /\ call.acquiredBefore
    /\ call.now = call.credBefore.token_expiry.n
    /\ ~Exchanged
    /\ Requests("GET") # {}

\* A fetch of this run failed: it raised, or it returned None.
FetchFailed ==
    \/ call.raised
    \/ (pc \in {"repos", "branch", "send", "done"} /\ job_states = "None")
    \/ (pc \in {"branch", "send", "done"} /\ repos_states = "None")

\* C5: no chart is rendered and nothing is posted to the relay unless both
\* fetches returned a payload; if a fetch failed, the run logs the failure,
\* renders and delivers nothing, and terminates normally.
C5_NoReportWithoutBothFetches ==
    /\ (rendered # <<>> \/ relay # <<>>) =>
          (job_states # "None" /\ repos_states # "None")
    /\ (FetchFailed /\ pc \in {"done", "crashed"}) =>
          /\ pc = "done"
          /\ rendered = <<>> /\ relay = <<>>
          /\ log = <<"ERROR:Failed to fetch data from one or more endpoints">>

\* send_daily_report has been called and has ended.
ReportSent == pc \in {"done", "crashed"} /\ rendered # <<>>

\* C6: send_daily_report attempts exactly three relay POSTs, each once, in
\* the order header text, job pie chart captioned with the job summary,
\* repository bar chart captioned with the repository summary, whatever
\* the outcome of the earlier deliveries.
C6_ThreeDeliveriesInOrder ==
    ReportSent =>
        relay = <<RelayEvent("text", "header", ""),
                  RelayEvent("media", "text1", "job_states_pie_chart.png"),
                  RelayEvent("media", "text2",
                             "repository_info_bar_chart.png")>>

\* C8: save_tokens followed by load_tokens leaves the in-memory access
\* token, refresh token and expiry identical to the values that were saved.
C8_SaveLoadRoundTrip ==
    (pc = "jobs" /\ file.exists) => cred = saved

C8_Witness ==
    /\ pc = "jobs" /\ file.exists
    /\ cred.access_token = PyStr("tokB")
    /\ cred.refresh_token = PyStr("refB")
    /\ cred.token_expiry = PyFloat(2 * Quantum)

\* The triple the token file holds, as json.load reads it.
FileTriple(f) ==
    [access_token |-> json_load(f.access_token),
     refresh_token |-> json_load(f.refresh_token),
     token_expiry |-> json_load(f.token_expiry)]

\* C10: once load_tokens has run, whenever the token file exists its
\* content equals the in-memory triple; a successful acquisition replaces
\* all three fields with the values of that exchange (expiry = time of
\* acquisition + server lifetime, 3600 s if absent); a failed acquisition
\* changes neither the file nor the in-memory triple.
C10_FileMirrorsMemory ==
    /\ (pc # "load_tokens" /\ file.exists) => FileTriple(file) = cred
    /\ ExchangeSucceeded =>
          /\ file.exists
          /\ cred = [access_token |-> call.auth.access_token,
                     refresh_token |-> call.auth.refresh_token,
                     token_expiry |->
                        PyFloat(call.acquiredAt +
                                (IF call.auth.expires_in = PyNone THEN 3600
                                 ELSE call.auth.expires_in.n))]
    /\ (Exchanged /\ ~ExchangeSucceeded) =>
          (cred = call.credBefore /\ file = call.fileBefore)

C10_Witness ==
    /\ ExchangeSucceeded
    /\ call.fileBefore.exists
    /\ call.credBefore.access_token = PyStr("tokA")
    /\ cred.access_token = PyStr("tokB")
    /\ call.auth.expires_in = PyNone
    /\ call.acquiredAt > call.now

(***************************************************************************)
(* The report builder on its own: get_failed_jobs applied to every list of *)
(* at most MaxJobs jobs.                                                   *)
(***************************************************************************)
MaxJobs == 2

\* Sequences over S of length at most n.
SeqUpTo(S, n) == UNION {[1..k -> S] : k \in 0..n}

NowInstants == {4 * HoursPerDay, 4 * HoursPerDay + 1}

UtcOffsets == {0, 7}

\* Instants around the two ends of the window of the earliest now, and
\* inside it.
RunInstants ==
    {3 * HoursPerDay - 1, 3 * HoursPerDay, 4 * HoursPerDay,
     5 * HoursPerDay + 1, 5 * HoursPerDay + 2}

LastRuns ==
    {LastRun("absent", 0, 0), LastRun("garbage", 0, 0),
     LastRun("naive", 4 * HoursPerDay, 0)}
    \cup {LastRun("offset", t + off, off) : t \in RunInstants, off \in UtcOffsets}

Jobs == {Job(res, lr) : res \in {"Success", "Warning", "Failed"}, lr \in LastRuns}

JobsInit ==
    /\ RunInit
    /\ rb_pc = "jobs"
    /\ jobs \in SeqUpTo(Jobs, MaxJobs)
    /\ now \in NowInstants
    /\ failed = [raised |-> FALSE, ret |-> <<>>]
    /\ repos = <<>>
    /\ summary = [err |-> "", at |-> 0, entries |-> <<>>]

\* line 175: failed_list = get_failed_jobs(job_states)
GetFailedJobs ==
    /\ rb_pc = "jobs"
    /\ failed' = get_failed_jobs(jobs, now)
    /\ rb_pc' = "failed_jobs"
    /\ UNCHANGED <<jobs, now, repos, summary>>
    /\ UNCHANGED runVars

JobsNext == GetFailedJobs

SpecJobs == JobsInit /\ [][JobsNext]_vars

\* The jobs the claim names: lastRun is a timestamp (one without offset is
\* read as UTC), lastResult is not "Success", and lastRun lies in
\* [now - 1 day, now + 1 day].
Claimed(job) ==
    /\ job.lastRun.form \in {"naive", "offset"}
    /\ job.lastResult # "Success"
    /\ now - HoursPerDay <= job.lastRun.wall - job.lastRun.off
    /\ job.lastRun.wall - job.lastRun.off <= now + HoursPerDay

\* C7: for every list of jobs and every current time, get_failed_jobs
\* returns exactly the jobs, in input order, whose lastRun parses as a
\* timestamp, whose lastResult is not "Success" and whose lastRun lies in
\* the closed interval [now - 1 day, now + 1 day].
C7_FailedJobsExactlyTheClaimed ==
    rb_pc = "failed_jobs" =>
        (~failed.raised /\ failed.ret = SelectSeq(jobs, Claimed))

\* What holds of get_failed_jobs: the claim, for the lists in which every
\* job that is not a success has an unparsable lastRun or one with an offset.
FailedJobsOfAwareLists ==
    (/\ rb_pc = "failed_jobs"
     /\ \A i \in 1..Len(jobs) :
           jobs[i].lastResult = "Success" \/ jobs[i].lastRun.form # "naive")
        => (~failed.raised /\ failed.ret = SelectSeq(jobs, Claimed))

(***************************************************************************)
(* The report builder on its own: the derived usedSpaceGB and the          *)
(* repository summary for every list of at most MaxRepos repositories.     *)
(***************************************************************************)
MaxRepos == 2

Repos ==
    {Repo(cap, free, used) :
        cap \in {Absent, PyNone, PyInt(0), PyInt(1024)},
        free \in {Absent, PyNone, PyInt(512)},
        used \in {Absent, PyNone, PyInt(512)}}

ReposInit ==
    /\ RunInit
    /\ rb_pc = "repos"
    /\ repos \in SeqUpTo(Repos, MaxRepos)
    /\ jobs = <<>>
    /\ now = 0
    /\ failed = [raised |-> FALSE, ret |-> <<>>]
    /\ summary = [err |-> "", at |-> 0, entries |-> <<>>]

\* lines 238-243
DeriveUsedSpace ==
    /\ rb_pc = "repos"
    /\ repos' = [i \in 1..Len(repos) |-> derive_used_space(repos[i])]
    /\ rb_pc' = "derived"
    /\ UNCHANGED <<jobs, now, failed, summary>>
    /\ UNCHANGED runVars

\* line 229: text1, text2 = generate_report_text(job_states, repos_states)
GenerateReportText ==
    /\ rb_pc = "derived"
    /\ summary' = generate_report_text(repos)
    /\ rb_pc' = "reported"
    /\ UNCHANGED <<jobs, now, failed, repos>>
    /\ UNCHANGED runVars

ReposNext ==
    \/ DeriveUsedSpace
    \/ GenerateReportText

SpecRepos == ReposInit /\ [][ReposNext]_vars

\* capacityGB is zero or absent.
NoCapacity(repo) == repo.capacityGB \in {Absent, PyInt(0)}

\* C9: for every repository whose capacityGB is zero or absent, whatever
\* its usedSpaceGB, the summary has total TB = 0, used TB = 0 and
\* utilization % = 0, and no division by zero occurs.
C9_ZeroCapacityGivesZeros ==
    rb_pc = "reported" =>
        /\ summary.err # "ZeroDivisionError"
        /\ \A i \in 1..Len(repos) :
              (NoCapacity(repos[i]) /\ summary.err = "") =>
                  /\ summary.entries[i].total_tb = Zero
                  /\ summary.entries[i].used_tb = Zero
                  /\ summary.entries[i].pct = Zero

C9_Witness ==
    /\ rb_pc = "reported"
    /\ Len(repos) = 2
    /\ repos[1].capacityGB = PyInt(0)
    /\ repos[1].usedSpaceGB = PyInt(0 - 512)
    /\ repos[2].capacityGB = Absent
    /\ repos[2].usedSpaceGB = PyInt(0 - 512)
    /\ summary.err = ""
    /\ Len(summary.entries) = 2

====
